---- MODULE Spec2Model ----
\* Change-to-event translation of the state store (package state):
\* eventsFromChanges / eventFromChange and the MsgTypeEvents registry.
\*
\* Snapshots live in a heap (a sequence of objects, address = position,
\* 0 = nil) so that copies and aliases of *structs.X pointers are visible.
EXTENDS Integers, Sequences, FiniteSets, TLC

VARIABLES
    heap,       \* the objects behind every pointer: snapshots and copies
    changes,    \* the Changes under translation: Index, MsgType, Changes
    pc,         \* position of eventsFromChanges: "start", "loop", "done"
    eventType,  \* local eventType
    i,          \* position of the range loop in changes.Changes
    events,     \* local events slice
    result,     \* the returned *structs.Events (NilResult: nil)
    registry,   \* the package variable MsgTypeEvents, as it is at run time
    peer        \* a second call of eventsFromChanges running concurrently:
                \* its changes, pc, eventType, i, events and result

vars == <<heap, changes, pc, eventType, i, events, result, registry, peer>>

\* ---------------------------------------------------------------- bounds
MaxChanges == 2
NumVals == 2

\* ------------------------------------------------------------ data model
Nil == 0
EmptyStr == <<>>
NoJob == <<>>
NoPayload == [variant |-> "", ref |-> Nil]
NilResult == [isNil |-> TRUE, Index |-> 0, Events |-> <<>>]

\* A string field of a snapshot: a tagged value, so that two fields of one
\* snapshot never coincide by accident.
Str(tag, v) == <<tag, v>>

Kinds == {"ACLToken", "ACLPolicy", "AuthMethod", "Evaluation", "Allocation",
          "Job", "Node", "Deployment", "ServiceRegistration", "IndexEntry"}

BlankObject(kind) ==
    [kind |-> kind, ID |-> EmptyStr, Name |-> EmptyStr, AccessorID |-> EmptyStr,
     Namespace |-> EmptyStr, JobID |-> EmptyStr, DeploymentID |-> EmptyStr,
     ServiceName |-> EmptyStr, SecretID |-> EmptyStr, Job |-> NoJob]

\* The typed snapshots the store holds (the fields the translation reads).
Snapshot(kind, v) ==
    CASE kind = "ACLToken" ->
           [BlankObject(kind) EXCEPT !.AccessorID = Str("accessor", v),
                                     !.SecretID = Str("secret", v),
                                     !.Name = Str("name", v)]
      [] kind \in {"ACLPolicy", "AuthMethod", "IndexEntry"} ->
           [BlankObject(kind) EXCEPT !.Name = Str("name", v)]
      [] kind = "Evaluation" ->
           [BlankObject(kind) EXCEPT !.ID = Str("id", v),
                                     !.Namespace = Str("ns", v),
                                     !.JobID = Str("job", v),
                                     !.DeploymentID = Str("deploy", v)]
      [] kind = "Allocation" ->
           [BlankObject(kind) EXCEPT !.ID = Str("id", v),
                                     !.Namespace = Str("ns", v),
                                     !.JobID = Str("job", v),
                                     !.DeploymentID = Str("deploy", v),
                                     !.Job = Str("jobspec", v)]
      [] kind = "Job" ->
           [BlankObject(kind) EXCEPT !.ID = Str("id", v),
                                     !.Namespace = Str("ns", v)]
      [] kind = "Node" ->
           [BlankObject(kind) EXCEPT !.ID = Str("id", v),
                                     !.SecretID = Str("secret", v)]
      [] kind = "Deployment" ->
           [BlankObject(kind) EXCEPT !.ID = Str("id", v),
                                     !.Namespace = Str("ns", v),
                                     !.JobID = Str("job", v)]
      [] kind = "ServiceRegistration" ->
           [BlankObject(kind) EXCEPT !.ID = Str("id", v),
                                     !.Namespace = Str("ns", v),
                                     !.JobID = Str("job", v),
                                     !.ServiceName = Str("service", v)]

TableServiceRegistrations == "service_registrations"

DispatchTables == {"acl_token", "acl_policy", "auth_method", "evals", "allocs",
                   "jobs", "nodes", "deployment", TableServiceRegistrations}

\* "index" is a table of the store that eventFromChange has no case for.
Tables == DispatchTables \cup {"index"}

\* The zero value structs.Event{}.
ZeroEvent ==
    [Topic |-> "", Type |-> "", Key |-> EmptyStr, Namespace |-> EmptyStr,
     FilterKeys |-> <<>>, Index |-> 0, Payload |-> NoPayload]

\* change.Before.(*structs.X): the assertion holds iff the interface value is
\* a non-nil pointer to an X.
TypeAssert(h, ref, kind) == ref # Nil /\ h[ref].kind = kind

\* -------------------------------------------------------------- registry
MsgTypeEvents ==
    [mt \in {"NodeRegisterRequestType", "NodeDeregisterRequestType",
             "UpsertNodeEventsType", "EvalUpdateRequestType",
             "AllocClientUpdateRequestType", "JobRegisterRequestType",
             "AllocUpdateRequestType", "NodeUpdateStatusRequestType",
             "JobDeregisterRequestType", "JobBatchDeregisterRequestType",
             "AllocUpdateDesiredTransitionRequestType",
             "NodeUpdateEligibilityRequestType", "NodeUpdateDrainRequestType",
             "BatchNodeUpdateDrainRequestType",
             "DeploymentStatusUpdateRequestType", "DeploymentPromoteRequestType",
             "DeploymentAllocHealthRequestType", "ApplyPlanResultsRequestType",
             "ACLTokenDeleteRequestType", "ACLTokenUpsertRequestType",
             "ACLPolicyDeleteRequestType", "ACLPolicyUpsertRequestType",
             "ServiceRegistrationUpsertRequestType",
             "ServiceRegistrationDeleteByIDRequestType",
             "ServiceRegistrationDeleteByNodeIDRequestType"} |->
       CASE mt = "NodeRegisterRequestType" -> "TypeNodeRegistration"
         [] mt = "NodeDeregisterRequestType" -> "TypeNodeDeregistration"
         [] mt = "UpsertNodeEventsType" -> "TypeNodeEvent"
         [] mt = "EvalUpdateRequestType" -> "TypeEvalUpdated"
         [] mt = "AllocClientUpdateRequestType" -> "TypeAllocationUpdated"
         [] mt = "JobRegisterRequestType" -> "TypeJobRegistered"
         [] mt = "AllocUpdateRequestType" -> "TypeAllocationUpdated"
         [] mt = "NodeUpdateStatusRequestType" -> "TypeNodeEvent"
         [] mt = "JobDeregisterRequestType" -> "TypeJobDeregistered"
         [] mt = "JobBatchDeregisterRequestType" -> "TypeJobBatchDeregistered"
         [] mt = "AllocUpdateDesiredTransitionRequestType" ->
              "TypeAllocationUpdateDesiredStatus"
         [] mt = "NodeUpdateEligibilityRequestType" -> "TypeNodeDrain"
         [] mt = "NodeUpdateDrainRequestType" -> "TypeNodeDrain"
         [] mt = "BatchNodeUpdateDrainRequestType" -> "TypeNodeDrain"
         [] mt = "DeploymentStatusUpdateRequestType" -> "TypeDeploymentUpdate"
         [] mt = "DeploymentPromoteRequestType" -> "TypeDeploymentPromotion"
         [] mt = "DeploymentAllocHealthRequestType" -> "TypeDeploymentAllocHealth"
         [] mt = "ApplyPlanResultsRequestType" -> "TypePlanResult"
         [] mt = "ACLTokenDeleteRequestType" -> "TypeACLTokenDeleted"
         [] mt = "ACLTokenUpsertRequestType" -> "TypeACLTokenUpserted"
         [] mt = "ACLPolicyDeleteRequestType" -> "TypeACLPolicyDeleted"
         [] mt = "ACLPolicyUpsertRequestType" -> "TypeACLPolicyUpserted"
         [] mt = "ServiceRegistrationUpsertRequestType" -> "TypeServiceRegistration"
         [] mt = "ServiceRegistrationDeleteByIDRequestType" ->
              "TypeServiceDeregistration"
         [] mt = "ServiceRegistrationDeleteByNodeIDRequestType" ->
              "TypeServiceDeregistration"]

\* eventType, ok := MsgTypeEvents[changes.MsgType]
LookupAlwaysFound(mt) ==
    IF mt \in DOMAIN registry
    THEN [ok |-> TRUE, eventType |-> registry[mt]]
    ELSE [ok |-> TRUE, eventType |-> ""]

Lookup(mt) ==
    IF mt \in DOMAIN registry
    THEN [ok |-> TRUE, eventType |-> registry[mt]]
    ELSE [ok |-> FALSE, eventType |-> ""]

\* ------------------------------------------------------------ sanitizers
\* (*Allocation).Copy: a new object equal to the receiver.
Copy(h, ref) == [heap |-> Append(h, h[ref]), ref |-> Len(h) + 1]

\* (*Node).Sanitize: a copy of the node with the secret cleared.
Sanitize(h, ref) ==
    [heap |-> Append(h, [h[ref] EXCEPT !.SecretID = EmptyStr]), ref |-> Len(h) + 1]

\* structs.NewACLTokenEvent(token): the payload wrapping the token.
NewACLTokenEvent(ref) == [variant |-> "ACLTokenEvent", ref |-> ref]

\* ------------------------------------------------------------ classifier
\* Every handler returns (event, ok) and the heap after its allocations.
Dropped(h) == [ok |-> FALSE, event |-> ZeroEvent, heap |-> h]

Emit(h, e) == [ok |-> TRUE, event |-> e, heap |-> h]

\* --- delete path (change.Deleted()), payload built from change.Before ---
DeleteACLTokenKeyFromSecret(change, h) ==
    IF ~TypeAssert(h, change.Before, "ACLToken") THEN Dropped(h)
    ELSE Emit(h, [ZeroEvent EXCEPT !.Topic = "TopicACLToken",
                                   !.Key = h[change.Before].SecretID,
                                   !.Payload = NewACLTokenEvent(change.Before)])

DeleteACLToken(change, h) ==
    IF ~TypeAssert(h, change.Before, "ACLToken") THEN Dropped(h)
    ELSE Emit(h, [ZeroEvent EXCEPT !.Topic = "TopicACLToken",
                                   !.Key = h[change.Before].AccessorID,
                                   !.Payload = NewACLTokenEvent(change.Before)])

DeleteACLPolicy(change, h) ==
    IF ~TypeAssert(h, change.Before, "ACLPolicy") THEN Dropped(h)
    ELSE Emit(h, [ZeroEvent EXCEPT !.Topic = "TopicACLPolicy",
                                   !.Key = h[change.Before].Name,
                                   !.Payload = [variant |-> "ACLPolicyEvent",
                                                ref |-> change.Before]])

DeleteNodeUnsanitized(change, h) ==
    IF ~TypeAssert(h, change.Before, "Node") THEN Dropped(h)
    ELSE Emit(h, [ZeroEvent EXCEPT !.Topic = "TopicNode",
                                   !.Key = h[change.Before].ID,
                                   !.Payload = [variant |-> "NodeStreamEvent",
                                                ref |-> change.Before]])

DeleteNode(change, h) ==
    IF ~TypeAssert(h, change.Before, "Node") THEN Dropped(h)
    ELSE LET s == Sanitize(h, change.Before)
         IN Emit(s.heap, [ZeroEvent EXCEPT !.Topic = "TopicNode",
                                           !.Key = s.heap[s.ref].ID,
                                           !.Payload = [variant |-> "NodeStreamEvent",
                                                        ref |-> s.ref]])

DeleteServiceRegistration(change, h) ==
    IF ~TypeAssert(h, change.Before, "ServiceRegistration") THEN Dropped(h)
    ELSE LET before == h[change.Before]
         IN Emit(h, [ZeroEvent EXCEPT
                       !.Topic = "TopicService",
                       !.Key = before.ID,
                       !.FilterKeys = <<before.JobID, before.ServiceName>>,
                       !.Namespace = before.Namespace,
                       !.Payload = [variant |-> "ServiceRegistrationStreamEvent",
                                    ref |-> change.Before]])

\* --- upsert path, payload built from change.After ---
UpsertACLToken(change, h) ==
    IF ~TypeAssert(h, change.After, "ACLToken") THEN Dropped(h)
    ELSE Emit(h, [ZeroEvent EXCEPT !.Topic = "TopicACLToken",
                                   !.Key = h[change.After].AccessorID,
                                   !.Payload = NewACLTokenEvent(change.After)])

UpsertACLPolicy(change, h) ==
    IF ~TypeAssert(h, change.After, "ACLPolicy") THEN Dropped(h)
    ELSE Emit(h, [ZeroEvent EXCEPT !.Topic = "TopicACLPolicy",
                                   !.Key = h[change.After].Name,
                                   !.Payload = [variant |-> "ACLPolicyEvent",
                                                ref |-> change.After]])

UpsertAuthMethod(change, h) ==
    IF ~TypeAssert(h, change.After, "AuthMethod") THEN Dropped(h)
    ELSE Emit(h, [ZeroEvent EXCEPT !.Topic = "TopicAuthMethod",
                                   !.Key = h[change.After].Name,
                                   !.Payload = [variant |-> "AuthMethodEvent",
                                                ref |-> change.After]])

UpsertEval(change, h) ==
    IF ~TypeAssert(h, change.After, "Evaluation") THEN Dropped(h)
    ELSE LET after == h[change.After]
         IN Emit(h, [ZeroEvent EXCEPT
                       !.Topic = "TopicEvaluation",
                       !.Key = after.ID,
                       !.FilterKeys = <<after.JobID, after.DeploymentID>>,
                       !.Namespace = after.Namespace,
                       !.Payload = [variant |-> "EvaluationEvent",
                                    ref |-> change.After]])

\* The allocation event built from the copy `alloc` (address c.ref in c.heap)
\* of the snapshot `after`, after `alloc.Job = nil`.
AllocEvent(change, c, h2) ==
    Emit(h2, [ZeroEvent EXCEPT
                !.Topic = "TopicAllocation",
                !.Key = h2[change.After].ID,
                !.FilterKeys = <<c.heap[c.ref].JobID, c.heap[c.ref].DeploymentID>>,
                !.Namespace = h2[change.After].Namespace,
                !.Payload = [variant |-> "AllocationEvent", ref |-> c.ref]])

\* mutant: the job is kept in the payload
UpsertAllocKeepJob(change, h) ==
    IF ~TypeAssert(h, change.After, "Allocation") THEN Dropped(h)
    ELSE LET c == Copy(h, change.After)
         IN AllocEvent(change, c, c.heap)

\* mutant: `after.Job = nil` instead of `alloc.Job = nil`
UpsertAllocClearSnapshot(change, h) ==
    IF ~TypeAssert(h, change.After, "Allocation") THEN Dropped(h)
    ELSE LET c == Copy(h, change.After)
         IN AllocEvent(change, c,
                       [c.heap EXCEPT ![c.ref].Job = NoJob,
                                      ![change.After].Job = NoJob])

\* mutant: `alloc := after`, no Copy
UpsertAllocNoCopy(change, h) ==
    IF ~TypeAssert(h, change.After, "Allocation") THEN Dropped(h)
    ELSE LET c == [heap |-> h, ref |-> change.After]
         IN AllocEvent(change, c, [c.heap EXCEPT ![c.ref].Job = NoJob])

\* mutant: the filter keys in the other order
UpsertAllocSwappedKeys(change, h) ==
    IF ~TypeAssert(h, change.After, "Allocation") THEN Dropped(h)
    ELSE LET c == Copy(h, change.After)
             e == AllocEvent(change, c, [c.heap EXCEPT ![c.ref].Job = NoJob])
         IN [e EXCEPT !.event.FilterKeys = <<c.heap[c.ref].DeploymentID,
                                             c.heap[c.ref].JobID>>]

UpsertAlloc(change, h) ==
    IF ~TypeAssert(h, change.After, "Allocation") THEN Dropped(h)
    ELSE LET c == Copy(h, change.After)
         IN AllocEvent(change, c, [c.heap EXCEPT ![c.ref].Job = NoJob])

\* mutant: the jobs case reads change.Before (the delete case pasted)
UpsertJobReadsBefore(change, h) ==
    IF ~TypeAssert(h, change.Before, "Job") THEN Dropped(h)
    ELSE LET before == h[change.Before]
         IN Emit(h, [ZeroEvent EXCEPT
                       !.Topic = "TopicJob",
                       !.Key = before.ID,
                       !.Namespace = before.Namespace,
                       !.Payload = [variant |-> "JobEvent", ref |-> change.Before]])

UpsertJob(change, h) ==
    IF ~TypeAssert(h, change.After, "Job") THEN Dropped(h)
    ELSE LET after == h[change.After]
         IN Emit(h, [ZeroEvent EXCEPT
                       !.Topic = "TopicJob",
                       !.Key = after.ID,
                       !.Namespace = after.Namespace,
                       !.Payload = [variant |-> "JobEvent", ref |-> change.After]])

UpsertNode(change, h) ==
    IF ~TypeAssert(h, change.After, "Node") THEN Dropped(h)
    ELSE LET s == Sanitize(h, change.After)
         IN Emit(s.heap, [ZeroEvent EXCEPT !.Topic = "TopicNode",
                                           !.Key = s.heap[s.ref].ID,
                                           !.Payload = [variant |-> "NodeStreamEvent",
                                                        ref |-> s.ref]])

UpsertDeployment(change, h) ==
    IF ~TypeAssert(h, change.After, "Deployment") THEN Dropped(h)
    ELSE LET after == h[change.After]
         IN Emit(h, [ZeroEvent EXCEPT
                       !.Topic = "TopicDeployment",
                       !.Key = after.ID,
                       !.Namespace = after.Namespace,
                       !.FilterKeys = <<after.JobID>>,
                       !.Payload = [variant |-> "DeploymentEvent",
                                    ref |-> change.After]])

UpsertServiceRegistration(change, h) ==
    IF ~TypeAssert(h, change.After, "ServiceRegistration") THEN Dropped(h)
    ELSE LET after == h[change.After]
         IN Emit(h, [ZeroEvent EXCEPT
                       !.Topic = "TopicService",
                       !.Key = after.ID,
                       !.FilterKeys = <<after.JobID, after.ServiceName>>,
                       !.Namespace = after.Namespace,
                       !.Payload = [variant |-> "ServiceRegistrationStreamEvent",
                                    ref |-> change.After]])

\* mutant: the delete switch does not return, a deleted change of a table
\* without a delete case falls through to the upsert switch
EventFromChangeFallThrough(change, h) ==
    IF change.Deleted /\ change.Table \in {"acl_token", "acl_policy", "nodes",
                                           TableServiceRegistrations}
    THEN CASE change.Table = "acl_token" -> DeleteACLToken(change, h)
           [] change.Table = "acl_policy" -> DeleteACLPolicy(change, h)
           [] change.Table = "nodes" -> DeleteNode(change, h)
           [] change.Table = TableServiceRegistrations ->
                DeleteServiceRegistration(change, h)
    ELSE CASE change.Table = "auth_method" -> UpsertAuthMethod(change, h)
           [] change.Table = "evals" -> UpsertEval(change, h)
           [] change.Table = "allocs" -> UpsertAlloc(change, h)
           [] change.Table = "jobs" -> UpsertJob(change, h)
           [] change.Table = "deployment" -> UpsertDeployment(change, h)
           [] change.Table = "acl_token" -> UpsertACLToken(change, h)
           [] change.Table = "acl_policy" -> UpsertACLPolicy(change, h)
           [] change.Table = "nodes" -> UpsertNode(change, h)
           [] change.Table = TableServiceRegistrations ->
                UpsertServiceRegistration(change, h)
           [] OTHER -> Dropped(h)

\* func eventFromChange(change memdb.Change) (structs.Event, bool)
EventFromChange(change, h) ==
    IF change.Deleted
    THEN CASE change.Table = "acl_token" -> DeleteACLToken(change, h)
           [] change.Table = "acl_policy" -> DeleteACLPolicy(change, h)
           [] change.Table = "nodes" -> DeleteNode(change, h)
           [] change.Table = TableServiceRegistrations ->
                DeleteServiceRegistration(change, h)
           [] OTHER -> Dropped(h)
    ELSE CASE change.Table = "acl_token" -> UpsertACLToken(change, h)
           [] change.Table = "acl_policy" -> UpsertACLPolicy(change, h)
           [] change.Table = "auth_method" -> UpsertAuthMethod(change, h)
           [] change.Table = "evals" -> UpsertEval(change, h)
           [] change.Table = "allocs" -> UpsertAlloc(change, h)
           [] change.Table = "jobs" -> UpsertJob(change, h)
           [] change.Table = "nodes" -> UpsertNode(change, h)
           [] change.Table = "deployment" -> UpsertDeployment(change, h)
           [] change.Table = TableServiceRegistrations ->
                UpsertServiceRegistration(change, h)
           [] OTHER -> Dropped(h)

\* ------------------------------------------------------- batch assembler
\* event.Type = eventType; event.Index = changes.Index
StampNoIndex(e, et, idx) == [e EXCEPT !.Type = et]

Stamp(e, et, idx) == [e EXCEPT !.Type = et, !.Index = idx]

\* The body of the range loop for one classifier result r.
AssemblePrepend(evs, r, et, idx) ==
    IF r.ok THEN <<Stamp(r.event, et, idx)>> \o evs ELSE evs

AssembleIgnoringOk(evs, r, et, idx) == Append(evs, Stamp(r.event, et, idx))

Assemble(evs, r, et, idx) ==
    IF r.ok THEN Append(evs, Stamp(r.event, et, idx)) ELSE evs

\* --------------------------------------------------------------- inputs
\* What the store hands over: per change a table, the deleted flag and the
\* two snapshots (kind "nil": absent).
NilSnap == [kind |-> "nil", v |-> 0]

Store(h, snap) ==
    IF snap.kind = "nil" THEN [heap |-> h, ref |-> Nil]
    ELSE [heap |-> Append(h, Snapshot(snap.kind, snap.v)), ref |-> Len(h) + 1]

RECURSIVE Build(_, _, _)
Build(specs, h, cs) ==
    IF specs = <<>> THEN [heap |-> h, changes |-> cs]
    ELSE LET s == Head(specs)
             b == Store(h, s.before)
             a == Store(b.heap, s.after)
         IN Build(Tail(specs), a.heap,
                  Append(cs, [Table |-> s.Table, Deleted |-> s.Deleted,
                              Before |-> b.ref, After |-> a.ref]))

\* The snapshot type the store keeps in each table.
KindOfTable(t) ==
    CASE t = "acl_token" -> "ACLToken"
      [] t = "acl_policy" -> "ACLPolicy"
      [] t = "auth_method" -> "AuthMethod"
      [] t = "evals" -> "Evaluation"
      [] t = "allocs" -> "Allocation"
      [] t = "jobs" -> "Job"
      [] t = "nodes" -> "Node"
      [] t = "deployment" -> "Deployment"
      [] t = TableServiceRegistrations -> "ServiceRegistration"
      [] t = "index" -> "IndexEntry"

WrongKind(t) == IF t = "jobs" THEN "Node" ELSE "Job"

\* A change whose authoritative snapshot (before when deleted, after
\* otherwise) is of type `kind` ("nil": absent) and holds the values of
\* position pos; the other snapshot is absent.
MakeSpec(tpl, pos) ==
    LET s == IF tpl.kind = "nil" THEN NilSnap ELSE [kind |-> tpl.kind, v |-> pos]
    IN [Table |-> tpl.Table, Deleted |-> tpl.Deleted,
        before |-> IF tpl.Deleted THEN s ELSE NilSnap,
        after |-> IF tpl.Deleted THEN NilSnap ELSE s]

\* Every table in both directions, the authoritative snapshot being of the
\* table's type, of another type, or absent.
AllTemplates ==
    UNION { [Table : {t}, Deleted : BOOLEAN,
             kind : {"nil", KindOfTable(t), WrongKind(t)}] : t \in Tables }

\* The changes that surround the change under study in a transaction.
CompanionTemplates ==
    { [Table |-> "jobs", Deleted |-> FALSE, kind |-> "Job"],
      [Table |-> "jobs", Deleted |-> FALSE, kind |-> "Node"],
      [Table |-> "allocs", Deleted |-> FALSE, kind |-> "Allocation"],
      [Table |-> "nodes", Deleted |-> TRUE, kind |-> "Node"],
      [Table |-> "acl_policy", Deleted |-> TRUE, kind |-> "nil"],
      [Table |-> "index", Deleted |-> FALSE, kind |-> "IndexEntry"] }

\* Transactions of up to MaxChanges changes: one change ranges over
\* AllTemplates at every position, the others over CompanionTemplates.
BatchInputs ==
    {<<>>} \cup
    UNION { UNION { { [q \in 1..n |-> MakeSpec(IF q = p THEN c ELSE comp[q], q)] :
                        c \in AllTemplates,
                        comp \in [1..n -> CompanionTemplates] } :
                    p \in 1..n } :
            n \in 1..MaxChanges }

\* A single change with any pair of snapshots.
SnapSpecs == {NilSnap} \cup [kind : Kinds, v : 1..NumVals]

ClassifyInputs ==
    { <<[Table |-> t, Deleted |-> d, before |-> b, after |-> a]>> :
        t \in Tables, d \in BOOLEAN, b \in SnapSpecs, a \in SnapSpecs }

MsgTypeInputs == {"NodeRegisterRequestType", "JobDeregisterRequestType",
                  "EvalDeleteRequestType"}

IndexInputs == {1, 2}

\* No second call.
IdlePeer ==
    [changes |-> [Index |-> 0, MsgType |-> "", Changes |-> <<>>], pc |-> "idle",
     eventType |-> "", i |-> 0, events |-> <<>>, result |-> NilResult]

InitWith(inputs) ==
    /\ \E specs \in inputs, mt \in MsgTypeInputs, idx \in IndexInputs :
         LET b == Build(specs, <<>>, <<>>)
         IN /\ heap = b.heap
            /\ changes = [Index |-> idx, MsgType |-> mt, Changes |-> b.changes]
    /\ pc = "start"
    /\ eventType = ""
    /\ i = 0
    /\ events = <<>>
    /\ result = NilResult
    /\ registry = MsgTypeEvents
    /\ peer = IdlePeer

Init == InitWith(BatchInputs)

InitClassify == InitWith(ClassifyInputs)

\* ---------------------------------------------------------------- steps
\* eventType, ok := MsgTypeEvents[changes.MsgType]; if !ok { return nil }
\* mutant: a lookup that misses is remembered in the map
StartCachingMiss ==
    /\ pc = "start"
    /\ LET l == Lookup(changes.MsgType)
       IN IF l.ok
          THEN /\ eventType' = l.eventType
               /\ pc' = "loop"
               /\ i' = 1
               /\ UNCHANGED <<result, registry>>
          ELSE /\ result' = NilResult
               /\ pc' = "done"
               /\ registry' = [m \in DOMAIN registry \cup {changes.MsgType} |->
                                 IF m \in DOMAIN registry THEN registry[m] ELSE ""]
               /\ UNCHANGED <<eventType, i>>
    /\ UNCHANGED <<heap, changes, events, peer>>

Start ==
    /\ pc = "start"
    /\ LET l == Lookup(changes.MsgType)
       IN IF l.ok
          THEN /\ eventType' = l.eventType
               /\ pc' = "loop"
               /\ i' = 1
               /\ UNCHANGED result
          ELSE /\ result' = NilResult
               /\ pc' = "done"
               /\ UNCHANGED <<eventType, i>>
    /\ UNCHANGED <<heap, changes, events, registry, peer>>

\* one iteration of `for _, change := range changes.Changes`
LoopStep ==
    /\ pc = "loop"
    /\ i <= Len(changes.Changes)
    /\ LET r == EventFromChange(changes.Changes[i], heap)
       IN /\ heap' = r.heap
          /\ events' = Assemble(events, r, eventType, changes.Index)
    /\ i' = i + 1
    /\ UNCHANGED <<changes, pc, eventType, result, registry, peer>>

\* return &structs.Events{Index: changes.Index, Events: events}
Return ==
    /\ pc = "loop"
    /\ i > Len(changes.Changes)
    /\ result' = [isNil |-> FALSE, Index |-> changes.Index, Events |-> events]
    /\ pc' = "done"
    /\ UNCHANGED <<heap, changes, eventType, i, events, registry, peer>>

\* The addresses of the snapshots of the Changes.
SnapshotAddrs ==
    ({ changes.Changes[k].Before : k \in 1..Len(changes.Changes) }
       \cup { changes.Changes[k].After : k \in 1..Len(changes.Changes) }) \ {Nil}

Reused(kind) == Snapshot(kind, 0)

\* After the call the store reuses the memory of one snapshot.
StorageReuse ==
    /\ pc = "done"
    /\ \A b \in SnapshotAddrs : heap[b] # Reused(heap[b].kind)
    /\ \E a \in SnapshotAddrs : heap' = [heap EXCEPT ![a] = Reused(heap[a].kind)]
    /\ UNCHANGED <<changes, pc, eventType, i, events, result, registry, peer>>

Next == Start \/ LoopStep \/ Return \/ StorageReuse

Spec == Init /\ [][Next]_vars

SpecClassify == InitClassify /\ [][Next]_vars

\* ------------------------------------------------------ concurrent calls
\* The changes of the transactions translated concurrently.
ConcurrentTemplates ==
    { [Table |-> "allocs", Deleted |-> FALSE, kind |-> "Allocation"],
      [Table |-> "nodes", Deleted |-> TRUE, kind |-> "Node"],
      [Table |-> "jobs", Deleted |-> FALSE, kind |-> "Node"] }

\* Transactions of up to MaxChanges changes whose snapshots hold the values
\* of positions base + 1, base + 2, ...
ConcurrentInputs(base) ==
    UNION { { [q \in 1..n |-> MakeSpec(tpl[q], base + q)] :
                tpl \in [1..n -> ConcurrentTemplates] } : n \in 0..MaxChanges }

\* Two independent transactions, each with its own snapshots, index and
\* MsgType, handed to two calls at once.
InitConcurrent ==
    /\ \E s1 \in ConcurrentInputs(0), s2 \in ConcurrentInputs(MaxChanges),
          mt1 \in MsgTypeInputs, mt2 \in MsgTypeInputs :
         LET b1 == Build(s1, <<>>, <<>>)
             b2 == Build(s2, b1.heap, <<>>)
         IN /\ heap = b2.heap
            /\ changes = [Index |-> 1, MsgType |-> mt1, Changes |-> b1.changes]
            /\ peer = [IdlePeer EXCEPT
                         !.changes = [Index |-> 2, MsgType |-> mt2,
                                      Changes |-> b2.changes],
                         !.pc = "start"]
    /\ pc = "start"
    /\ eventType = ""
    /\ i = 0
    /\ events = <<>>
    /\ result = NilResult
    /\ registry = MsgTypeEvents

\* The steps of the second call: the same code on its own locals, on the
\* shared heap and the shared MsgTypeEvents.
PeerStart ==
    /\ peer.pc = "start"
    /\ LET l == Lookup(peer.changes.MsgType)
       IN peer' = IF l.ok
                  THEN [peer EXCEPT !.eventType = l.eventType, !.pc = "loop", !.i = 1]
                  ELSE [peer EXCEPT !.result = NilResult, !.pc = "done"]
    /\ UNCHANGED <<heap, changes, pc, eventType, i, events, result, registry>>

PeerLoopStep ==
    /\ peer.pc = "loop"
    /\ peer.i <= Len(peer.changes.Changes)
    /\ LET r == EventFromChange(peer.changes.Changes[peer.i], heap)
       IN /\ heap' = r.heap
          /\ peer' = [peer EXCEPT
                        !.events = Assemble(peer.events, r, peer.eventType,
                                            peer.changes.Index),
                        !.i = peer.i + 1]
    /\ UNCHANGED <<changes, pc, eventType, i, events, result, registry>>

PeerReturn ==
    /\ peer.pc = "loop"
    /\ peer.i > Len(peer.changes.Changes)
    /\ peer' = [peer EXCEPT
                  !.result = [isNil |-> FALSE, Index |-> peer.changes.Index,
                              Events |-> peer.events],
                  !.pc = "done"]
    /\ UNCHANGED <<heap, changes, pc, eventType, i, events, result, registry>>

NextConcurrent ==
    Start \/ LoopStep \/ Return \/ PeerStart \/ PeerLoopStep \/ PeerReturn

SpecConcurrent == InitConcurrent /\ [][NextConcurrent]_vars

\* ============================================================ properties
\* The dispatch table, stated per table rather than per code path.
DeleteTables == {"acl_token", "acl_policy", "nodes", TableServiceRegistrations}

TopicOfTable(t) ==
    CASE t = "acl_token" -> "TopicACLToken"
      [] t = "acl_policy" -> "TopicACLPolicy"
      [] t = "auth_method" -> "TopicAuthMethod"
      [] t = "evals" -> "TopicEvaluation"
      [] t = "allocs" -> "TopicAllocation"
      [] t = "jobs" -> "TopicJob"
      [] t = "nodes" -> "TopicNode"
      [] t = "deployment" -> "TopicDeployment"
      [] t = TableServiceRegistrations -> "TopicService"
      [] OTHER -> ""

KeyOf(obj) ==
    CASE obj.kind = "ACLToken" -> obj.AccessorID
      [] obj.kind \in {"ACLPolicy", "AuthMethod"} -> obj.Name
      [] OTHER -> obj.ID

Authoritative(c) == IF c.Deleted THEN c.Before ELSE c.After

\* The change has a rule for its table and direction and its authoritative
\* snapshot is present and of the table's type.
Classifiable(c) ==
    /\ c.Table \in DispatchTables
    /\ c.Deleted => c.Table \in DeleteTables
    /\ Authoritative(c) # Nil
    /\ heap[Authoritative(c)].kind = KindOfTable(c.Table)

\* Event e is the event of change c.
FromChange(e, c) ==
    /\ Classifiable(c)
    /\ e.Topic = TopicOfTable(c.Table)
    /\ e.Key = KeyOf(heap[Authoritative(c)])

NoReuse == \A b \in SnapshotAddrs : heap[b] # Reused(heap[b].kind)

Returned == pc = "done" /\ ~result.isNil

NChanges == Len(changes.Changes)

Increasing(m, n) == { f \in [1..m -> 1..n] : \A a, b \in 1..m : a < b => f[a] < f[b] }

\* C1: while the loop runs and when it has returned, the events are an
\* order-preserving subsequence of the changes already visited: there is a
\* strictly increasing map from event positions to change positions such that
\* every event is the event of the change it is mapped to.
C1_OrderPreserved ==
    (pc \in {"loop", "done"} /\ NoReuse /\ changes.MsgType \in DOMAIN MsgTypeEvents) =>
        /\ pc = "done" => result.Events = events
        /\ \E f \in Increasing(Len(events), NChanges) :
             \A k \in 1..Len(events) :
                /\ f[k] < i
                /\ FromChange(events[k], changes.Changes[f[k]])

C1_Witness ==
    /\ Returned /\ NoReuse
    /\ NChanges >= 2
    /\ Len(result.Events) >= 2
    /\ result.Events[1].Key # result.Events[2].Key

\* C2: for a MsgType absent from MsgTypeEvents the call returns nil, without
\* visiting any change, whatever the changes are.
C2_UnmappedNoBatch ==
    (changes.MsgType \notin DOMAIN MsgTypeEvents) =>
        /\ result.isNil
        /\ events = <<>>
        /\ pc # "loop"

C2_Witness ==
    /\ pc = "done"
    /\ changes.MsgType \notin DOMAIN MsgTypeEvents
    /\ result.isNil
    /\ NChanges >= 1
    /\ \A k \in 1..NChanges : Classifiable(changes.Changes[k])

\* C3: a returned batch carries the Index of the Changes, and so does every
\* event of it, with the Type the registry gives for the MsgType, for events
\* of the delete path and of the upsert path alike.
C3_Stamped ==
    Returned =>
        /\ result.Index = changes.Index
        /\ \A k \in 1..Len(result.Events) :
              /\ result.Events[k].Index = changes.Index
              /\ result.Events[k].Type = MsgTypeEvents[changes.MsgType]

C3_Witness ==
    /\ Returned /\ NoReuse
    /\ changes.Index = 2
    /\ \E k, l \in 1..NChanges :
          /\ changes.Changes[k].Deleted /\ Classifiable(changes.Changes[k])
          /\ ~changes.Changes[l].Deleted /\ Classifiable(changes.Changes[l])
    /\ Len(result.Events) = 2

\* C4: the node an event carries never holds the secret of the node
\* snapshot: its SecretID is empty, on the delete and on the upsert path.
C4_NodeRedacted ==
    \A k \in 1..Len(events) :
        events[k].Payload.variant = "NodeStreamEvent" =>
            /\ events[k].Payload.ref # Nil
            /\ heap[events[k].Payload.ref].SecretID = EmptyStr
            /\ pc = "done" => result.Events = events

C4_Witness ==
    /\ Returned
    /\ NChanges = 1
    /\ changes.Changes[1].Table = "nodes"
    /\ changes.Changes[1].Deleted
    /\ Len(result.Events) = 1
    /\ heap[changes.Changes[1].Before].SecretID = Str("secret", 1)
    /\ heap[result.Events[1].Payload.ref].ID = Str("id", 1)

\* C5: the allocation an event carries has no Job, also when the allocation
\* snapshot has one.
C5_AllocShrunk ==
    \A k \in 1..Len(events) :
        events[k].Payload.variant = "AllocationEvent" =>
            /\ events[k].Payload.ref # Nil
            /\ heap[events[k].Payload.ref].Job = NoJob
            /\ pc = "done" => result.Events = events

C5_Witness ==
    /\ Returned
    /\ NChanges = 1
    /\ changes.Changes[1].Table = "allocs"
    /\ ~changes.Changes[1].Deleted
    /\ Len(result.Events) = 1
    /\ heap[changes.Changes[1].After].Job = Str("jobspec", 1)
    /\ heap[result.Events[1].Payload.ref].ID = Str("id", 1)

\* C6: no step of the translation changes a snapshot of the Changes: until
\* the call has returned every snapshot object stays what it was.
C6_SnapshotsUntouched ==
    [][pc # "done" => \A a \in SnapshotAddrs : heap'[a] = heap[a]]_vars

C6_Witness ==
    /\ Returned /\ NoReuse
    /\ NChanges = 1
    /\ changes.Changes[1].Table = "nodes"
    /\ ~changes.Changes[1].Deleted
    /\ Len(result.Events) = 1
    /\ heap[changes.Changes[1].After].SecretID = Str("secret", 2)
    /\ result.Events[1].Payload.ref # changes.Changes[1].After
    /\ heap[result.Events[1].Payload.ref].SecretID = EmptyStr

\* What a holder of event e sees: its fields and the object behind its payload.
View(e, h) ==
    [event |-> e, object |-> IF e.Payload.ref = Nil THEN BlankObject("") ELSE h[e.Payload.ref]]

\* The tables whose payload is the snapshot pointer itself.
AliasedTopics == {"TopicACLPolicy", "TopicAuthMethod", "TopicEvaluation", "TopicJob",
                  "TopicDeployment", "TopicService"}

CopiedTopics == {"TopicAllocation", "TopicNode"}

ClassifiablePositions ==
    SelectSeq([k \in 1..NChanges |-> k], LAMBDA k : Classifiable(changes.Changes[k]))

\* C8: the returned events are exactly the events of the classifiable
\* changes, in order: a change on a table without a rule, or whose
\* authoritative snapshot is absent or of another type, leaves no event, and
\* it does not stop the changes around it from producing theirs.
C8_DropOnMismatch ==
    (Returned /\ NoReuse) =>
        /\ Len(result.Events) = Len(ClassifiablePositions)
        /\ \A j \in 1..Len(ClassifiablePositions) :
              /\ j <= Len(result.Events)
              /\ FromChange(result.Events[j], changes.Changes[ClassifiablePositions[j]])
              /\ result.Events[j] # Stamp(ZeroEvent, eventType, changes.Index)

C8_Witness ==
    /\ Returned /\ NoReuse
    /\ NChanges = 2
    /\ changes.Changes[1].Table = "jobs"
    /\ ~changes.Changes[1].Deleted
    /\ changes.Changes[1].After # Nil
    /\ heap[changes.Changes[1].After].kind # "Job"
    /\ Classifiable(changes.Changes[2])
    /\ Len(result.Events) = 1
    /\ result.Events[1].Key = KeyOf(heap[Authoritative(changes.Changes[2])])

\* The same change taken on the other path: the authoritative snapshot
\* becomes the other one and the deleted flag is flipped.
OtherPath(c) ==
    [Table |-> c.Table, Deleted |-> ~c.Deleted,
     Before |-> IF c.Deleted THEN Nil ELSE c.After,
     After |-> IF c.Deleted THEN c.Before ELSE Nil]

\* C9: an access-token or access-policy change whose snapshot is of the right
\* type yields one event with topic ACLToken / ACLPolicy, key the accessor id
\* / the policy name, no namespace and no filter keys, and the other path
\* applied to the same snapshot yields the same topic, key, namespace and
\* filter keys.
C9_TokenPolicySymmetry ==
    (Returned /\ NoReuse /\ NChanges = 1) =>
        LET c == changes.Changes[1]
            o == EventFromChange(OtherPath(c), heap)
        IN (c.Table \in {"acl_token", "acl_policy"} /\ Classifiable(c)) =>
              /\ Len(result.Events) = 1
              /\ result.Events[1].Topic =
                    (IF c.Table = "acl_token" THEN "TopicACLToken" ELSE "TopicACLPolicy")
              /\ result.Events[1].Key =
                    (IF c.Table = "acl_token" THEN heap[Authoritative(c)].AccessorID
                     ELSE heap[Authoritative(c)].Name)
              /\ result.Events[1].Namespace = EmptyStr
              /\ result.Events[1].FilterKeys = <<>>
              /\ o.ok
              /\ o.event.Topic = result.Events[1].Topic
              /\ o.event.Key = result.Events[1].Key
              /\ o.event.Namespace = result.Events[1].Namespace
              /\ o.event.FilterKeys = result.Events[1].FilterKeys

C9_Witness ==
    /\ Returned /\ NoReuse
    /\ NChanges = 1
    /\ changes.Changes[1].Table = "acl_token"
    /\ changes.Changes[1].Deleted
    /\ Len(result.Events) = 1
    /\ result.Events[1].Key = Str("accessor", 1)

\* C10: an allocation upsert yields an event with filter keys <<job id,
\* deployment id>>, the allocation's namespace and the allocation id as key;
\* an evaluation upsert <<job id, deployment id>>, a deployment upsert
\* <<job id>>, a service registration (either path) <<job id, service name>>,
\* each with the namespace and the id of its snapshot.
C10_FilterKeys ==
    (Returned /\ NoReuse /\ NChanges = 1) =>
        LET c == changes.Changes[1]
            s == heap[Authoritative(c)]
        IN (c.Table \in {"allocs", "evals", "deployment", TableServiceRegistrations}
              /\ Classifiable(c)) =>
              /\ Len(result.Events) = 1
              /\ result.Events[1].Key = s.ID
              /\ result.Events[1].Namespace = s.Namespace
              /\ result.Events[1].FilterKeys =
                    (CASE c.Table \in {"allocs", "evals"} -> <<s.JobID, s.DeploymentID>>
                       [] c.Table = "deployment" -> <<s.JobID>>
                       [] c.Table = TableServiceRegistrations -> <<s.JobID, s.ServiceName>>)

C10_Witness ==
    /\ Returned /\ NoReuse
    /\ NChanges = 1
    /\ changes.Changes[1].Table = "allocs"
    /\ Len(result.Events) = 1
    /\ result.Events[1].FilterKeys = <<Str("job", 1), Str("deploy", 1)>>
    /\ result.Events[1].Namespace = Str("ns", 1)

\* The tables with a case in the upsert switch only.
UpsertOnlyTables == {"auth_method", "evals", "allocs", "jobs", "deployment"}

\* C12: a deleted change on auth_method, evals, allocs, jobs or deployment
\* yields no event, whatever its snapshots are; a deleted change on acl_token,
\* acl_policy, nodes or service registrations whose before snapshot is of the
\* table's type yields one event of the table's topic.
C12_UpsertOnly ==
    (Returned /\ NChanges = 1 /\ changes.Changes[1].Deleted) =>
        LET c == changes.Changes[1]
        IN /\ c.Table \in UpsertOnlyTables => result.Events = <<>>
           /\ (c.Table \in DispatchTables \ UpsertOnlyTables
                 /\ TypeAssert(heap, c.Before, KindOfTable(c.Table))) =>
                 /\ Len(result.Events) = 1
                 /\ result.Events[1].Topic = TopicOfTable(c.Table)

C12_Witness ==
    /\ Returned /\ NoReuse
    /\ NChanges = 1
    /\ changes.Changes[1].Deleted
    /\ changes.Changes[1].Table = "jobs"
    /\ TypeAssert(heap, changes.Changes[1].Before, "Job")
    /\ TypeAssert(heap, changes.Changes[1].After, "Job")
    /\ result.Events = <<>>

\* What event e shows, whatever the address of its payload.
Shown(e, h) ==
    [Topic |-> e.Topic, Key |-> e.Key, Namespace |-> e.Namespace,
     FilterKeys |-> e.FilterKeys, variant |-> e.Payload.variant,
     object |-> IF e.Payload.ref = Nil THEN BlankObject("") ELSE h[e.Payload.ref]]

\* Change c with its non-authoritative snapshot replaced by ref.
WithOther(c, ref) ==
    IF c.Deleted THEN [c EXCEPT !.After = ref] ELSE [c EXCEPT !.Before = ref]

\* C13: the result for a change does not depend on its non-authoritative
\* snapshot: with that snapshot absent, or replaced by any object of the heap
\* (stale, of another type, or the authoritative one itself), eventFromChange
\* returns the same ok and an event with the same topic, key, namespace,
\* filter keys and payload as the one returned for the change.
C13_OnlyAuthoritativeRead ==
    (Returned /\ NoReuse /\ NChanges = 1) =>
        \A ref \in {Nil} \cup DOMAIN heap :
            LET alt == EventFromChange(WithOther(changes.Changes[1], ref), heap)
            IN /\ alt.ok <=> Len(result.Events) = 1
               /\ ~alt.ok => result.Events = <<>>
               /\ alt.ok => Shown(alt.event, alt.heap) = Shown(result.Events[1], heap)

C13_Witness ==
    /\ Returned /\ NoReuse
    /\ NChanges = 1
    /\ changes.Changes[1].Table = "jobs"
    /\ ~changes.Changes[1].Deleted
    /\ TypeAssert(heap, changes.Changes[1].After, "Job")
    /\ TypeAssert(heap, changes.Changes[1].Before, "Job")
    /\ heap[changes.Changes[1].Before].ID # heap[changes.Changes[1].After].ID
    /\ Len(result.Events) = 1
    /\ result.Events[1].Key = heap[changes.Changes[1].After].ID

\* What eventsFromChanges returns for cs when it runs alone on heap h, with
\* MsgTypeEvents as initialised.
RECURSIVE RunAlone(_, _, _, _, _)
RunAlone(cs, k, h, evs, et) ==
    IF k > Len(cs.Changes)
    THEN [result |-> [isNil |-> FALSE, Index |-> cs.Index, Events |-> evs], heap |-> h]
    ELSE LET r == EventFromChange(cs.Changes[k], h)
         IN RunAlone(cs, k + 1, r.heap, Assemble(evs, r, et, cs.Index), et)

TranslateAlone(cs, h) ==
    IF cs.MsgType \in DOMAIN MsgTypeEvents
    THEN RunAlone(cs, 1, h, <<>>, MsgTypeEvents[cs.MsgType])
    ELSE [result |-> NilResult, heap |-> h]

PeerSnapshotAddrs ==
    ({ peer.changes.Changes[k].Before : k \in 1..Len(peer.changes.Changes) }
       \cup { peer.changes.Changes[k].After : k \in 1..Len(peer.changes.Changes) })
      \ {Nil}

\* The heap as the store handed it over: the snapshots of both transactions.
SnapshotHeap == SubSeq(heap, 1, Cardinality(SnapshotAddrs \cup PeerSnapshotAddrs))

\* Batch r (payloads in heap h) is the batch `alone` (payloads in its heap).
SameBatch(r, h, alone) ==
    /\ r.isNil = alone.result.isNil
    /\ r.Index = alone.result.Index
    /\ Len(r.Events) = Len(alone.result.Events)
    /\ \A k \in 1..Len(r.Events) :
          /\ k <= Len(alone.result.Events)
          /\ r.Events[k].Type = alone.result.Events[k].Type
          /\ r.Events[k].Index = alone.result.Events[k].Index
          /\ Shown(r.Events[k], h) = Shown(alone.result.Events[k], alone.heap)

\* C11: with two calls interleaved step by step, each call that has returned
\* has returned the batch it returns when it runs alone on the same
\* transaction, and MsgTypeEvents is at every moment what it was initialised
\* to.
C11_ConcurrentCallsIndependent ==
    /\ registry = MsgTypeEvents
    /\ pc = "done" => SameBatch(result, heap, TranslateAlone(changes, SnapshotHeap))
    /\ peer.pc = "done" =>
          SameBatch(peer.result, heap, TranslateAlone(peer.changes, SnapshotHeap))

\* Both calls returned two events each, and the copies they allocated
\* alternate in the heap: the loops were interleaved.
C11_Witness ==
    /\ pc = "done" /\ peer.pc = "done"
    /\ Len(result.Events) = 2 /\ Len(peer.result.Events) = 2
    /\ result.Events[1].Payload.ref < peer.result.Events[1].Payload.ref
    /\ peer.result.Events[1].Payload.ref < result.Events[2].Payload.ref
    /\ result.Events[2].Payload.ref < peer.result.Events[2].Payload.ref
    /\ result.Events[1].Payload.ref \notin SnapshotAddrs \cup PeerSnapshotAddrs
    /\ result.Events[1].Type # peer.result.Events[1].Type
====
